---- MODULE Spec2Model ----
(***************************************************************************)
(* Model of the document chunking pipeline (DocumentProcessor.chunkText)   *)
(* and of the search service (WeaviateService.searchDocuments and its      *)
(* keyword fallback).                                                      *)
(*                                                                         *)
(* A JavaScript string is modelled as a sequence of one-character strings, *)
(* so that length, trim, split, substring and concatenation are computed   *)
(* as the code computes them.  A relevance score is modelled in tenths:    *)
(* the integer t stands for the score t / 10.                              *)
(***************************************************************************)
EXTENDS Integers, Sequences, FiniteSets, TLC

VARIABLES
    text,          \* chunkText: the RawText argument
    chunkSize,     \* chunkText: the chunkSize argument
    sentences,     \* chunkText: const sentences (line 80)
    chunks,        \* chunkText: the provisional chunks (lines 81-98)
    result,        \* chunkText: the returned array (line 119)
    pc,            \* "ready" before the call, "done" after it returned
    client,        \* WeaviateService.client: "null" or "client"
    limit,         \* searchDocuments: the limit argument of the last call
    vectorReply,   \* what the nearVector query answered in the last call
    keywordReply,  \* what the Like query answered in the last call
    outcome,       \* how the last service call settled
    docArg,        \* indexDocument: the id of the document argument
    chunksArg,     \* indexDocument: the chunks argument
    batch,         \* indexDocument: the objects array (lines 124-143)
    indexed,       \* the objects the vector index holds
    files,         \* validateFiles: the files argument
    valid,         \* validateFiles: the valid array
    invalid,       \* validateFiles: the invalid array
    error,         \* FileUpload: whether the error message is set
    uploadRequest, \* FileUpload: the array last passed to onUpload
    stored,        \* localStorage['semantic-search-theme']
    prefersDark,   \* matchMedia('(prefers-color-scheme: dark)').matches
    theme,         \* useTheme state of App, "unmounted" before it mounts
    childTheme,    \* useTheme state of a child component
    storedAtStart, \* the stored value when the page was loaded
    toggles,       \* the number of toggleTheme calls made
    documents,     \* App: documents (the library), a sequence of ids
    searchResults, \* App: searchResults
    selectedDocument, \* App: selectedDocument, 0 for null
    isConnected,   \* App: isConnected
    isUploading,   \* App: isUploading
    isSearching,   \* App: isSearching
    searchQuery,   \* App: searchQuery
    searchType,    \* SearchInterface: searchType
    connectTask,   \* initializeConnection: where it stands
    uploadTask,    \* handleFileUpload: where the call in flight stands
    clearTask,     \* handleClearAll: where the call in flight stands
    deleteTask,    \* handleDeleteDocument: where the call in flight stands
    searchTask,    \* handleSearch: where the call in flight stands
    nextId,        \* the next id crypto.randomUUID() gives
    lastEvent      \* the handler step taken last

chunkVars    == <<text, chunkSize, sentences, chunks, result, pc>>
searchVars   == <<client, limit, vectorReply, keywordReply, outcome>>
indexVars    == <<docArg, chunksArg, batch, indexed>>
validateVars == <<files, valid, invalid, error, uploadRequest>>
themeVars    == <<stored, prefersDark, theme, childTheme, storedAtStart, toggles>>
appVars      == <<documents, searchResults, selectedDocument, isConnected,
                  isUploading, isSearching, searchQuery, searchType,
                  connectTask, uploadTask, clearTask, deleteTask, searchTask,
                  nextId, lastEvent>>
vars         == <<chunkVars, searchVars, indexVars, validateVars, themeVars,
                  appVars>>

\* no useTheme hook mounted yet
ThemeIdle ==
    /\ stored = "none"
    /\ prefersDark = FALSE
    /\ theme = "unmounted"
    /\ childTheme = "unmounted"
    /\ storedAtStart = "none"
    /\ toggles = 0

\* no indexDocument call made, the index empty
IndexIdle ==
    /\ docArg = 0
    /\ chunksArg = <<>>
    /\ batch = <<>>
    /\ indexed = {}

\* no file offered to FileUpload
ValidateIdle ==
    /\ files = <<>>
    /\ valid = <<>>
    /\ invalid = <<>>
    /\ error = FALSE
    /\ uploadRequest = <<>>

NoTask == [pc |-> "idle"]

\* App after its first render: the useState initial values
AppIdle ==
    /\ documents = <<>>
    /\ searchResults = <<>>
    /\ selectedDocument = 0
    /\ isConnected = FALSE
    /\ isUploading = FALSE
    /\ isSearching = FALSE
    /\ searchQuery = <<>>
    /\ searchType = "semantic"
    /\ connectTask = NoTask
    /\ uploadTask = NoTask
    /\ clearTask = NoTask
    /\ deleteTask = NoTask
    /\ searchTask = NoTask
    /\ nextId = 1
    /\ lastEvent = [handler |-> "none", ok |-> TRUE, call |-> FALSE]

----------------------------------------------------------------------------
(* Bounds of the model *)

\* longest text of the exhaustively enumerated short texts
MaxLen == 3
\* largest number of sentences of the enumerated long texts
MaxSent == 3

(* Program constants *)

\* the merge threshold M of the merge pass
MinChunkLength == 100
\* the default value of the chunkSize parameter
DefaultChunkSize == 500

----------------------------------------------------------------------------
(* Strings *)

Delimiters == {".", "!", "?"}
WhiteSpace == {" ", "\n", "\t"}

Max2(a, b) == IF a >= b THEN a ELSE b
Min2(a, b) == IF a <= b THEN a ELSE b

\* n copies of the character c
Run(c, n) == [i \in 1..n |-> c]

RECURSIVE SkipLeft(_, _)
SkipLeft(s, i) ==
    IF i > Len(s) \/ s[i] \notin WhiteSpace THEN i ELSE SkipLeft(s, i + 1)

RECURSIVE SkipRight(_, _)
SkipRight(s, j) ==
    IF j < 1 \/ s[j] \notin WhiteSpace THEN j ELSE SkipRight(s, j - 1)

\* String.prototype.trim
trim(s) == SubSeq(s, SkipLeft(s, 1), SkipRight(s, Len(s)))

\* String.prototype.substring(0, n): n is clamped to 0..length
substring0(s, n) == SubSeq(s, 1, Min2(Max2(n, 0), Len(s)))

RECURSIVE SortedSeq(_)
SortedSeq(S) ==
    IF S = {} THEN <<>>
    ELSE LET m == CHOOSE x \in S : \A y \in S : x <= y
         IN  <<m>> \o SortedSeq(S \ {m})

\* text.split(/[.!?]+/): the maximal delimiter-free runs, with an empty
\* string in front when the text starts with a delimiter, one at the end
\* when it ends with one, and [""] for the empty text
split(s) ==
    LET n      == Len(s)
        starts == SortedSeq({i \in 1..n : /\ s[i] \notin Delimiters
                                          /\ (i = 1 \/ s[i-1] \in Delimiters)})
        ends   == SortedSeq({i \in 1..n : /\ s[i] \notin Delimiters
                                          /\ (i = n \/ s[i+1] \in Delimiters)})
        runs   == [k \in 1..Len(starts) |-> SubSeq(s, starts[k], ends[k])]
    IN  IF n = 0 THEN << <<>> >>
        ELSE (IF s[1] \in Delimiters THEN << <<>> >> ELSE <<>>)
             \o runs
             \o (IF s[n] \in Delimiters THEN << <<>> >> ELSE <<>>)

----------------------------------------------------------------------------
(* DocumentProcessor.chunkText *)

NonBlank(s) == Len(trim(s)) > 0

\* Sentence segmenter: line 80
Segmenter(t) == SelectSeq(split(t), NonBlank)

Separator == <<".", " ">>

\* One iteration of the builder loop (lines 85-93) on the state
\* [chunks, currentChunk]
BuilderStepNoSeparator(st, sentence, size) ==
    LET trimmedSentence == trim(sentence)
    IN  IF Len(trimmedSentence) = 0 THEN st
        ELSE IF Len(st.currentChunk) + Len(trimmedSentence) > size
                /\ Len(st.currentChunk) > 0
        THEN [chunks |-> Append(st.chunks, trim(st.currentChunk)),
              currentChunk |-> trimmedSentence]
        ELSE [chunks |-> st.chunks,
              currentChunk |-> st.currentChunk \o trimmedSentence]

BuilderStepNeverCloses(st, sentence, size) ==
    LET trimmedSentence == trim(sentence)
    IN  IF Len(trimmedSentence) = 0 THEN st
        ELSE [chunks |-> st.chunks,
              currentChunk |->
                  st.currentChunk
                  \o (IF Len(st.currentChunk) > 0 THEN Separator ELSE <<>>)
                  \o trimmedSentence]

BuilderStepNoTrim(st, sentence, size) ==
    IF Len(trim(sentence)) = 0 THEN st
    ELSE IF Len(st.currentChunk) + Len(sentence) > size
            /\ Len(st.currentChunk) > 0
    THEN [chunks |-> Append(st.chunks, trim(st.currentChunk)),
          currentChunk |-> sentence]
    ELSE [chunks |-> st.chunks,
          currentChunk |->
              st.currentChunk
              \o (IF Len(st.currentChunk) > 0 THEN Separator ELSE <<>>)
              \o sentence]

BuilderStepTruncates(st, sentence, size) ==
    LET trimmedSentence == substring0(trim(sentence), size)
    IN  IF Len(trim(sentence)) = 0 THEN st
        ELSE IF Len(st.currentChunk) + Len(trimmedSentence) > size
                /\ Len(st.currentChunk) > 0
        THEN [chunks |-> Append(st.chunks, trim(st.currentChunk)),
              currentChunk |-> trimmedSentence]
        ELSE [chunks |-> st.chunks,
              currentChunk |->
                  st.currentChunk
                  \o (IF Len(st.currentChunk) > 0 THEN Separator ELSE <<>>)
                  \o trimmedSentence]

BuilderStep(st, sentence, size) ==
    LET trimmedSentence == trim(sentence)
    IN  IF Len(trimmedSentence) = 0 THEN st
        ELSE IF Len(st.currentChunk) + Len(trimmedSentence) > size
                /\ Len(st.currentChunk) > 0
        THEN [chunks |-> Append(st.chunks, trim(st.currentChunk)),
              currentChunk |-> trimmedSentence]
        ELSE [chunks |-> st.chunks,
              currentChunk |->
                  st.currentChunk
                  \o (IF Len(st.currentChunk) > 0 THEN Separator ELSE <<>>)
                  \o trimmedSentence]

\* The builder loop, lines 84-94.  Each iteration's state is evaluated
\* before the next iteration starts (the test on chunks, which only grows,
\* is what makes the evaluation strict).
RECURSIVE BuilderLoop(_, _, _, _)
BuilderLoop(st, ss, i, size) ==
    IF i > Len(ss) THEN st
    ELSE LET next == BuilderStep(st, ss[i], size)
         IN  IF Len(next.chunks) >= Len(st.chunks)
             THEN BuilderLoop(next, ss, i + 1, size)
             ELSE next

\* Chunk builder: lines 81-98, the provisional chunks
ChunkBuilder(ss, size) ==
    LET st == BuilderLoop([chunks |-> <<>>, currentChunk |-> <<>>], ss, 1, size)
    IN  IF Len(trim(st.currentChunk)) > 0
        THEN Append(st.chunks, trim(st.currentChunk))
        ELSE st.chunks

\* One iteration of the merge loop (lines 105-112) on the state
\* [mergedChunks, tempChunk]
MergerStepDropsTemp(st, chunk) ==
    IF Len(st.tempChunk) + Len(chunk) < MinChunkLength /\ Len(st.tempChunk) > 0
    THEN [mergedChunks |-> st.mergedChunks,
          tempChunk |-> st.tempChunk \o Separator \o chunk]
    ELSE [mergedChunks |-> st.mergedChunks,
          tempChunk |-> chunk]

\* a mutant: chunks of 100 characters together are merged too
MergerStepMergesAtHundred(st, chunk) ==
    IF Len(st.tempChunk) + Len(chunk) <= MinChunkLength /\ Len(st.tempChunk) > 0
    THEN [mergedChunks |-> st.mergedChunks,
          tempChunk |-> st.tempChunk \o Separator \o chunk]
    ELSE [mergedChunks |-> IF Len(st.tempChunk) > 0
                           THEN Append(st.mergedChunks, st.tempChunk)
                           ELSE st.mergedChunks,
          tempChunk |-> chunk]

MergerStep(st, chunk) ==
    IF Len(st.tempChunk) + Len(chunk) < MinChunkLength /\ Len(st.tempChunk) > 0
    THEN [mergedChunks |-> st.mergedChunks,
          tempChunk |-> st.tempChunk \o Separator \o chunk]
    ELSE [mergedChunks |-> IF Len(st.tempChunk) > 0
                           THEN Append(st.mergedChunks, st.tempChunk)
                           ELSE st.mergedChunks,
          tempChunk |-> chunk]

\* The merge loop, lines 104-113, evaluated strictly as the builder loop is
RECURSIVE MergerLoop(_, _, _)
MergerLoop(st, cs, i) ==
    IF i > Len(cs) THEN st
    ELSE LET next == MergerStep(st, cs[i])
         IN  IF Len(next.mergedChunks) >= Len(st.mergedChunks)
             THEN MergerLoop(next, cs, i + 1)
             ELSE next

\* Chunk merger: lines 101-117
ChunkMerger(cs) ==
    LET st == MergerLoop([mergedChunks |-> <<>>, tempChunk |-> <<>>], cs, 1)
    IN  IF Len(st.tempChunk) > 0
        THEN Append(st.mergedChunks, st.tempChunk)
        ELSE st.mergedChunks

\* The return statement: line 119
ReturnNoFallback(mergedChunks, t, size) == mergedChunks

ReturnWholeText(mergedChunks, t, size) ==
    IF Len(mergedChunks) > 0 THEN mergedChunks ELSE <<t>>

ReturnChunks(mergedChunks, t, size) ==
    IF Len(mergedChunks) > 0 THEN mergedChunks ELSE <<substring0(t, size)>>

chunkText(t, size) ==
    ReturnChunks(ChunkMerger(ChunkBuilder(Segmenter(t), size)), t, size)

----------------------------------------------------------------------------
(* Inputs of chunkText *)

Alphabet == {"a", "b", " ", ".", "!"}

\* every text of at most MaxLen characters over the alphabet
ShortTexts == UNION {[1..n -> Alphabet] : n \in 0..MaxLen}

SentenceLengths == {1, 40, 120, 300}

\* the text whose k-th sentence is a run of ls[k] letters, the sentences
\* ended by "." and "!" in turn and separated by one space
RECURSIVE LongTextFrom(_, _)
LongTextFrom(ls, k) ==
    IF k > Len(ls) THEN <<>>
    ELSE Run(IF k % 2 = 1 THEN "a" ELSE "b", ls[k])
         \o <<IF k % 2 = 1 THEN "." ELSE "!">>
         \o (IF k < Len(ls) THEN <<" ">> ELSE <<>>)
         \o LongTextFrom(ls, k + 1)

LongTexts ==
    {LongTextFrom(ls, 1) : ls \in UNION {[1..n -> SentenceLengths] : n \in 1..MaxSent}}

\* 50 sentences of 20 characters each
FiftyByTwenty == LongTextFrom([k \in 1..50 |-> 20], 1)

\* "A. B. C."
ABC == <<"A", ".", " ", "B", ".", " ", "C", ".">>

\* a sentence of 60 characters, then one of 40
SixtyThenForty == LongTextFrom(<<60, 40>>, 1)

Texts == ShortTexts \cup LongTexts \cup {FiftyByTwenty, ABC, SixtyThenForty}

Sizes == {-1, 0, 2, 50, MinChunkLength - 1, MinChunkLength, DefaultChunkSize}

----------------------------------------------------------------------------
(* The chunking specification: one call of chunkText on any input *)

ChunkIdle ==
    /\ text = <<>>
    /\ chunkSize = DefaultChunkSize
    /\ sentences = <<>>
    /\ chunks = <<>>
    /\ result = <<>>
    /\ pc = "idle"

SearchIdle ==
    /\ client = "null"
    /\ limit = 0
    /\ vectorReply = [kind |-> "none", items |-> <<>>]
    /\ keywordReply = [kind |-> "none", items |-> <<>>]
    /\ outcome = [op |-> "none", status |-> "none", value |-> <<>>]

Init ==
    /\ text \in Texts
    /\ chunkSize \in Sizes
    /\ sentences = <<>>
    /\ chunks = <<>>
    /\ result = <<>>
    /\ pc = "ready"
    /\ SearchIdle
    /\ IndexIdle /\ ValidateIdle /\ ThemeIdle /\ AppIdle

\* chunkText(text, chunkSize), lines 79-120
ChunkTextCall ==
    /\ pc = "ready"
    /\ sentences' = Segmenter(text)
    /\ chunks' = ChunkBuilder(Segmenter(text), chunkSize)
    /\ result' = chunkText(text, chunkSize)
    /\ pc' = "done"
    /\ UNCHANGED <<text, chunkSize>>
    /\ UNCHANGED <<searchVars, indexVars, validateVars, themeVars, appVars>>

Next == ChunkTextCall

Spec == Init /\ [][Next]_vars

----------------------------------------------------------------------------
(* Vocabulary of the chunking claims *)

\* the segmenter's sentences, trimmed as the builder trims them
TrimmedSentences == [k \in 1..Len(sentences) |-> trim(sentences[k])]

RECURSIVE JoinFrom(_, _)
JoinFrom(ss, k) ==
    IF k > Len(ss) THEN <<>>
    ELSE (IF k > 1 THEN Separator ELSE <<>>) \o ss[k] \o JoinFrom(ss, k + 1)

\* the strings of ss joined by ". "
Joined(ss) == JoinFrom(ss, 1)

\* the pieces of c between the occurrences of ". "
SplitOnSeparator(c) ==
    LET n    == Len(c)
        seps == SortedSeq({p \in 1..(n - 1) : c[p] = "." /\ c[p + 1] = " "})
        from(k) == IF k = 1 THEN 1 ELSE seps[k - 1] + 2
        to(k)   == IF k > Len(seps) THEN n ELSE seps[k] - 1
    IN  [k \in 1..(Len(seps) + 1) |-> SubSeq(c, from(k), to(k))]

RECURSIVE PiecesFrom(_, _)
PiecesFrom(cs, i) ==
    IF i > Len(cs) THEN <<>>
    ELSE SplitOnSeparator(cs[i]) \o PiecesFrom(cs, i + 1)

\* the pieces of all the chunks of cs, in chunk order
Pieces(cs) == PiecesFrom(cs, 1)

RECURSIVE TotalLengthFrom(_, _)
TotalLengthFrom(ss, k) ==
    IF k > Len(ss) THEN 0 ELSE Len(ss[k]) + TotalLengthFrom(ss, k + 1)

\* the sum of the lengths of the strings of ss
TotalLength(ss) == TotalLengthFrom(ss, 1)

\* the length of the longest string of ss, 0 when there is none
Longest(ss) ==
    IF ss = <<>> THEN 0
    ELSE LET k == CHOOSE i \in 1..Len(ss) : \A j \in 1..Len(ss) : Len(ss[i]) >= Len(ss[j])
         IN  Len(ss[k])

CeilDiv(a, b) == (a + b - 1) \div b

Lengths(cs) == [i \in 1..Len(cs) |-> Len(cs[i])]

Blank(t) == \A i \in 1..Len(t) : t[i] \in WhiteSpace \cup Delimiters

----------------------------------------------------------------------------
(* Claims about chunkText *)

\* C1: for every input string (empty, whitespace-only, delimiter-only or
\* ordinary text) and every chunkSize, the sequence chunkText returns holds
\* at least one chunk, and every chunk of it is a string over the
\* characters of the text and of the separator.
C1_AtLeastOneChunk ==
    pc = "done" =>
        /\ Len(result) >= 1
        /\ \A i \in 1..Len(result) : \A j \in 1..Len(result[i]) :
               result[i][j] \in {text[k] : k \in 1..Len(text)} \cup {".", " "}

\* a blank but non-empty text was chunked
C1_Witness ==
    /\ pc = "done"
    /\ Len(text) > 0
    /\ Blank(text)
    /\ Len(result) = 1

\* C2 (as claimed): no chunk other than possibly the first is shorter than
\* the minimum viable length, unless the returned sequence holds one chunk.
C2_NoShortChunkAfterFirst ==
    pc = "done" /\ Len(result) > 1 =>
        \A i \in 2..Len(result) : Len(result[i]) >= MinChunkLength

\* C3: when the input has at least one sentence, the chunks split on the
\* injected ". " and concatenated in chunk order are exactly the trimmed
\* sentences of the segmenter, in order.
C3_SentencesPreserved ==
    pc = "done" /\ sentences # <<>> => Pieces(result) = TrimmedSentences

\* several sentences were spread over several chunks, one of them merged
C3_Witness ==
    /\ pc = "done"
    /\ Len(sentences) >= 3
    /\ Len(result) >= 2
    /\ Len(result) < Len(chunks)
    /\ Pieces(result) = TrimmedSentences

\* C4 (as claimed): every returned chunk is at most chunkSize plus the
\* length of the longest sentence long.
C4_AtMostOneSentenceOver ==
    pc = "done" =>
        \A i \in 1..Len(result) :
            Len(result[i]) <= chunkSize + Longest(TrimmedSentences)

\* C4 (amended): every returned chunk is at most max(chunkSize, M - 1) plus
\* one separator plus the length of the longest sentence long.
C4_AtMostOneSentenceAndSeparatorOver ==
    pc = "done" =>
        \A i \in 1..Len(result) :
            Len(result[i]) <= Max2(chunkSize, MinChunkLength - 1)
                              + Len(Separator) + Longest(TrimmedSentences)

\* a chunk longer than chunkSize plus the longest sentence was returned
C4_Witness ==
    /\ pc = "done"
    /\ sentences # <<>>
    /\ \E i \in 1..Len(result) :
           Len(result[i]) > chunkSize + Longest(TrimmedSentences)

\* C5 (as claimed): for 50 sentences of 20 characters and chunkSize 500 the
\* number of chunks is ceil(total content length / 500), the content being
\* the 50 * 20 characters of the sentences.
C5_CountIsCeilOfContent ==
    pc = "done" /\ text = FiftyByTwenty /\ chunkSize = DefaultChunkSize =>
        Len(result) = CeilDiv(TotalLength(TrimmedSentences), chunkSize)

\* C5 (amended): for 50 sentences of 20 characters and chunkSize 500 three
\* chunks are returned, of 22, 22 and 6 sentences (482, 482 and 130
\* characters).
C5_ThreeChunks ==
    pc = "done" /\ text = FiftyByTwenty /\ chunkSize = DefaultChunkSize =>
        /\ Len(sentences) = 50
        /\ \A k \in 1..Len(sentences) : Len(TrimmedSentences[k]) = 20
        /\ Len(result) = 3
        /\ Lengths(result) = <<482, 482, 130>>
        /\ Len(SplitOnSeparator(result[1])) = 22
        /\ Len(SplitOnSeparator(result[2])) = 22
        /\ Len(SplitOnSeparator(result[3])) = 6

\* the 50 sentences of 20 characters were chunked with chunkSize 500
C5_Witness ==
    /\ pc = "done"
    /\ text = FiftyByTwenty
    /\ chunkSize = DefaultChunkSize
    /\ TotalLength(TrimmedSentences) = 1000
    /\ Len(result) = 3

\* C6: when the segmenter yields no sentence, exactly one chunk is
\* returned, the first chunkSize characters of the text; for the empty
\* text it is the empty string.
C6_FallbackChunk ==
    pc = "done" /\ sentences = <<>> =>
        /\ Len(result) = 1
        /\ Len(result[1]) = Min2(Max2(chunkSize, 0), Len(text))
        /\ \A i \in 1..Len(result[1]) : result[1][i] = text[i]
        /\ (text = <<>> => result = << <<>> >>)

\* a text without a sentence and longer than chunkSize was cut
C6_Witness ==
    /\ pc = "done"
    /\ sentences = <<>>
    /\ chunkSize > 0
    /\ chunkSize < Len(text)
    /\ result = <<SubSeq(text, 1, chunkSize)>>

\* C7: when there is at least one sentence and the trimmed sentences joined
\* by ". " fit within chunkSize, exactly one chunk is returned, that join;
\* "A. B. C." with chunkSize 500 gives "A. B. C".
C7_SingleJoinedChunk ==
    /\ pc = "done" /\ sentences # <<>>
          /\ Len(Joined(TrimmedSentences)) <= chunkSize =>
            result = <<Joined(TrimmedSentences)>>
    /\ pc = "done" /\ text = ABC /\ chunkSize = DefaultChunkSize =>
            result = << <<"A", ".", " ", "B", ".", " ", "C">> >>

\* "A. B. C." was chunked with chunkSize 500
C7_Witness ==
    /\ pc = "done"
    /\ text = ABC
    /\ chunkSize = DefaultChunkSize
    /\ Len(sentences) = 3
    /\ result = << <<"A", ".", " ", "B", ".", " ", "C">> >>

----------------------------------------------------------------------------
(* WeaviateService: the search path *)

\* largest limit a caller passes to searchDocuments
MaxLimit == 12
Limits == 1..MaxLimit

\* The k-th object of the index as a query returns it.  hasCertainty tells
\* whether the reply carries _additional.certainty; certainty is in tenths.
Stored(k) ==
    [documentId   |-> k % 3,
     content      |-> k,
     chunkIndex   |-> k \div 3,
     documentName |-> k % 3,
     hasCertainty |-> k % 4 # 0,
     certainty    |-> (7 * k) % 11]

\* a reply of n objects, in one of two orders
Hits(n, reversed) ==
    [j \in 1..n |-> Stored(IF reversed THEN n + 1 - j ELSE j)]

NotAsked == [kind |-> "none", items |-> <<>>]

\* What a graphql query can answer under withLimit(l): it fails, it answers
\* without data for the class, or it answers with at most l objects.
Replies(l) ==
    {[kind |-> "error", items |-> <<>>], [kind |-> "nodata", items |-> <<>>]}
    \cup {[kind |-> "list", items |-> Hits(n, r)] : n \in 0..l, r \in BOOLEAN}

Resolved(v) == [status |-> "resolved", value |-> v]
Rejected    == [status |-> "rejected", value |-> <<>>]

\* 1 - (index * 0.1), in tenths: line 216
PositionalScoreOneBased(index) == 10 - (index + 1)

PositionalScoreClamped(index) == Max2(0, 10 - index)

PositionalScore(index) == 10 - index

\* the object built for one keyword match: lines 213-222
KeywordResult(item, index) ==
    [documentId   |-> item.documentId,
     content      |-> item.content,
     score        |-> PositionalScore(index),
     chunkIndex   |-> item.chunkIndex,
     documentName |-> item.documentName]

\* the object built for one vector match: lines 175-184
VectorResult(item) ==
    [documentId   |-> item.documentId,
     content      |-> item.content,
     score        |-> IF item.hasCertainty THEN item.certainty ELSE 0,
     chunkIndex   |-> item.chunkIndex,
     documentName |-> item.documentName]

\* fallbackKeywordSearch settles as follows when the Like query answers k
FallbackRethrows(c, k) ==
    IF c = "null" \/ k.kind = "error" THEN Rejected
    ELSE IF k.kind = "nodata" THEN Resolved(<<>>)
    ELSE Resolved([i \in 1..Len(k.items) |-> KeywordResult(k.items[i], i - 1)])

fallbackKeywordSearch(c, k) ==
    IF c = "null" THEN Rejected
    ELSE IF k.kind = "error" THEN Resolved(<<>>)
    ELSE IF k.kind = "nodata" THEN Resolved(<<>>)
    ELSE Resolved([i \in 1..Len(k.items) |-> KeywordResult(k.items[i], i - 1)])

\* searchDocuments settles as follows when the nearVector query answers v
\* and the Like query, if it is made, answers k
searchDocuments(c, v, k) ==
    IF c = "null" THEN Rejected
    ELSE IF v.kind = "error" THEN fallbackKeywordSearch(c, k)
    ELSE IF v.kind = "nodata" THEN Resolved(<<>>)
    ELSE Resolved([i \in 1..Len(v.items) |-> VectorResult(v.items[i])])

\* initialize(): the client is created, then the schema is ensured
Initialize ==
    /\ \E r \in {"ok", "clientThrows", "schemaThrows"} :
          /\ client' = IF r = "clientThrows" THEN client ELSE "client"
          /\ outcome' = [op |-> "initialize",
                         status |-> IF r = "ok" THEN "resolved" ELSE "rejected",
                         value |-> <<>>]
    /\ limit' = 0
    /\ vectorReply' = NotAsked
    /\ keywordReply' = NotAsked
    /\ UNCHANGED <<chunkVars, indexVars, validateVars, themeVars, appVars>>

\* searchDocuments(query, l): the nearVector query is made when the client
\* is set, the Like query when the nearVector query failed
SearchDocuments ==
    /\ \E l \in Limits :
       \E v \in (IF client = "null" THEN {NotAsked} ELSE Replies(l)) :
       \E k \in (IF v.kind = "error" THEN Replies(l) ELSE {NotAsked}) :
          /\ limit' = l
          /\ vectorReply' = v
          /\ keywordReply' = k
          /\ outcome' = [op |-> "search",
                         status |-> searchDocuments(client, v, k).status,
                         value |-> searchDocuments(client, v, k).value]
    /\ UNCHANGED client
    /\ UNCHANGED <<chunkVars, indexVars, validateVars, themeVars, appVars>>

SearchInit ==
    /\ ChunkIdle /\ SearchIdle
    /\ IndexIdle /\ ValidateIdle /\ ThemeIdle /\ AppIdle

SearchNext == Initialize \/ SearchDocuments

SearchSpec == SearchInit /\ [][SearchNext]_vars

\* the last call was a search that fell back to the keyword query
FellBack ==
    /\ outcome.op = "search"
    /\ client # "null"
    /\ vectorReply.kind = "error"

----------------------------------------------------------------------------
(* Claims about the search path *)

\* C8: given N keyword matches the fallback returns N results in the order
\* of the matches, and the result at zero-based position i scores
\* 1 - i * 0.1 (10 - i tenths), so positions 0, 1, 2 score 1.0, 0.9, 0.8.
C8_FallbackScores ==
    FellBack /\ keywordReply.kind = "list" =>
        LET items == keywordReply.items
            value == outcome.value
        IN  /\ outcome.status = "resolved"
            /\ Len(value) = Len(items)
            /\ \A i \in 1..Len(items) :
                  /\ value[i].documentId = items[i].documentId
                  /\ value[i].content = items[i].content
                  /\ value[i].chunkIndex = items[i].chunkIndex
                  /\ value[i].score + (i - 1) = 10
            /\ Len(items) >= 3 =>
                  <<value[1].score, value[2].score, value[3].score>> = <<10, 9, 8>>

\* three or more matches were scored by the fallback
C8_Witness ==
    /\ FellBack
    /\ keywordReply.kind = "list"
    /\ Len(keywordReply.items) >= 3
    /\ Len(outcome.value) = Len(keywordReply.items)
    /\ outcome.value[3].score = 8

\* C9 (as claimed): the fallback score is negative at every position
\* i >= 10 and lies in [0, 1] at every position i < 10.
C9_NegativeFromTen ==
    FellBack =>
        \A i \in 1..Len(outcome.value) :
            LET position == i - 1
                score    == outcome.value[i].score
            IN  /\ position >= 10 => score < 0
                /\ position < 10 => score >= 0 /\ score <= 10

\* C9 (amended): the fallback score is not clamped: it is negative at every
\* position i >= 11, exactly 0 at position 10, and lies in (0, 1] at every
\* position i < 10.
C9_NegativeFromEleven ==
    FellBack =>
        \A i \in 1..Len(outcome.value) :
            LET position == i - 1
                score    == outcome.value[i].score
            IN  /\ position >= 11 => score < 0
                /\ position = 10 => score = 0
                /\ position < 10 => score > 0 /\ score <= 10

\* the fallback scored matches at the positions 10 and 11
C9_Witness ==
    /\ FellBack
    /\ Len(outcome.value) >= 12
    /\ outcome.value[11].score = 0
    /\ outcome.value[12].score < 0

\* C10: with the client set, searchDocuments never rejects; the keyword
\* query is made exactly when the vector query failed, and then the call
\* returns the fallback's results: one per match when the keyword query
\* answers, and the empty list when it fails or has no match.
C10_SearchNeverRejects ==
    outcome.op = "search" /\ client # "null" =>
        /\ outcome.status = "resolved"
        /\ keywordReply.kind # "none" <=> vectorReply.kind = "error"
        /\ vectorReply.kind = "error" /\ keywordReply.kind \in {"error", "nodata"} =>
              outcome.value = <<>>
        /\ vectorReply.kind = "error" /\ keywordReply.kind = "list" =>
              /\ Len(outcome.value) = Len(keywordReply.items)
              /\ \A i \in 1..Len(outcome.value) :
                    outcome.value[i].content = keywordReply.items[i].content

\* both queries failed and the search resolved with the empty list
C10_Witness ==
    /\ FellBack
    /\ keywordReply.kind = "error"
    /\ outcome.status = "resolved"
    /\ outcome.value = <<>>

----------------------------------------------------------------------------
(* Further claims about chunkText *)

\* C12: a sentence longer than chunkSize is a provisional chunk of its own,
\* whole: the provisional chunks split on ". " are the trimmed sentences,
\* and a provisional chunk of several sentences holds none longer than
\* chunkSize.
C12_LongSentenceOwnChunk ==
    pc = "done" =>
        /\ Pieces(chunks) = TrimmedSentences
        /\ \A i \in 1..Len(chunks) :
              LET pieces == SplitOnSeparator(chunks[i])
              IN  Len(pieces) > 1 =>
                      \A j \in 1..Len(pieces) : Len(pieces[j]) <= chunkSize

\* a sentence longer than chunkSize, between two others, is a chunk
C12_Witness ==
    /\ pc = "done"
    /\ chunkSize >= MinChunkLength
    /\ Len(sentences) >= 3
    /\ Len(TrimmedSentences[2]) > chunkSize
    /\ \E i \in 1..Len(chunks) : chunks[i] = TrimmedSentences[2]

\* a non-empty end of c is a start of d
Overlap(c, d) ==
    \E n \in 1..Min2(Len(c), Len(d)) :
        SubSeq(c, Len(c) - n + 1, Len(c)) = SubSeq(d, 1, n)

\* C19 (as claimed): consecutive chunks returned for a document share
\* overlapping text.
C19_ConsecutiveChunksOverlap ==
    pc = "done" =>
        \A i \in 1..(Len(result) - 1) : Overlap(result[i], result[i + 1])

----------------------------------------------------------------------------
(* WeaviateService.indexDocument *)

\* longest chunks array passed to indexDocument
MaxChunks == 3
\* the document ids of the index specification
IndexDocIds == {1, 2}

ChunkValues == {<<>>, <<" ">>, <<"a">>, <<"b", " ">>}

ChunkLists == UNION {[1..n -> ChunkValues] : n \in 0..MaxChunks}

\* One iteration of the loop of lines 126-143 on the objects built so far;
\* i is the zero-based loop variable
IndexStepDense(objects, d, cs, i) ==
    IF Len(trim(cs[i + 1])) = 0 THEN objects
    ELSE Append(objects, [documentId |-> d,
                          content    |-> cs[i + 1],
                          chunkIndex |-> Len(objects)])

IndexStep(objects, d, cs, i) ==
    IF Len(trim(cs[i + 1])) = 0 THEN objects
    ELSE Append(objects, [documentId |-> d,
                          content    |-> cs[i + 1],
                          chunkIndex |-> i])

RECURSIVE IndexLoop(_, _, _, _)
IndexLoop(objects, d, cs, i) ==
    IF i >= Len(cs) THEN objects
    ELSE IndexLoop(IndexStep(objects, d, cs, i), d, cs, i + 1)

\* the objects array indexDocument builds: lines 124-143
IndexObjects(d, cs) == IndexLoop(<<>>, d, cs, 0)

Range(seq) == {seq[j] : j \in 1..Len(seq)}

\* indexDocument(document, chunks), lines 121-151: the batch is sent when
\* it is not empty, and stores its objects unless the request fails.
\* One call is made in a behaviour.
IndexDocument ==
    /\ docArg = 0
    /\ \E d \in IndexDocIds, cs \in ChunkLists, ok \in BOOLEAN :
          LET objects == IndexObjects(d, cs)
          IN  /\ docArg' = d
              /\ chunksArg' = cs
              /\ IF client = "null"
                 THEN /\ batch' = <<>>
                      /\ indexed' = indexed
                      /\ outcome' = [op |-> "index", status |-> "rejected",
                                     value |-> <<>>]
                 ELSE /\ batch' = objects
                      /\ indexed' = IF ok THEN indexed \cup Range(objects)
                                          ELSE indexed
                      /\ outcome' = [op |-> "index",
                                     status |-> IF ok \/ objects = <<>>
                                                THEN "resolved" ELSE "rejected",
                                     value |-> <<>>]
    /\ UNCHANGED <<client, limit, vectorReply, keywordReply>>
    /\ UNCHANGED <<chunkVars, validateVars, themeVars, appVars>>

IndexInit ==
    /\ ChunkIdle /\ SearchIdle
    /\ IndexIdle /\ ValidateIdle /\ ThemeIdle /\ AppIdle

IndexNext == Initialize \/ IndexDocument

IndexSpec == IndexInit /\ [][IndexNext]_vars

\* C11: every object indexDocument stores carries the zero-based position
\* of its chunk in the chunks passed in, also when blank chunks are
\* skipped; every non-blank chunk is stored, and no two objects of the
\* call share a chunkIndex.
C11_ChunkIndexIsPosition ==
    outcome.op = "index" /\ outcome.status = "resolved" =>
        /\ \A j \in 1..Len(batch) :
              /\ batch[j].documentId = docArg
              /\ batch[j].chunkIndex \in 0..(Len(chunksArg) - 1)
              /\ chunksArg[batch[j].chunkIndex + 1] = batch[j].content
              /\ batch[j] \in indexed
        /\ \A i \in 1..Len(chunksArg) :
              Len(trim(chunksArg[i])) > 0 =>
                  \E j \in 1..Len(batch) : batch[j].chunkIndex = i - 1
        /\ \A j, k \in 1..Len(batch) :
              j # k => batch[j].chunkIndex # batch[k].chunkIndex

\* a blank chunk between two others was skipped
C11_Witness ==
    /\ outcome.op = "index"
    /\ outcome.status = "resolved"
    /\ Len(chunksArg) = 3
    /\ Len(trim(chunksArg[2])) = 0
    /\ Len(batch) = 2
    /\ batch[2].chunkIndex = 2
    /\ batch[2] \in indexed

----------------------------------------------------------------------------
(* FileUpload: validateFiles, and DocumentProcessor.getTypeFromName *)

\* largest number of files offered at once
MaxFiles == 2

MimePdf  == "application/pdf"
MimeDocx == "application/vnd.openxmlformats-officedocument.wordprocessingml.document"
MimeDoc  == "application/msword"
MimeTxt  == "text/plain"
MimeMd   == "text/markdown"
MimeRtf  == "application/rtf"

\* const supportedTypes, FileUpload lines 16-23
supportedTypes == {MimePdf, MimeDocx, MimeDoc, MimeTxt, MimeMd, MimeRtf}

\* 10 * 1024 * 1024, FileUpload line 34
MaxFileSize == 10 * 1024 * 1024

\* String.prototype.toLowerCase, on the letters the file names use
toLowerCase(s) ==
    [i \in 1..Len(s) |->
        CASE s[i] = "T" -> "t"
          [] s[i] = "X" -> "x"
          [] s[i] = "P" -> "p"
          [] s[i] = "D" -> "d"
          [] s[i] = "F" -> "f"
          [] OTHER -> s[i]]

\* String.prototype.endsWith
endsWith(s, suffix) ==
    /\ Len(suffix) <= Len(s)
    /\ SubSeq(s, Len(s) - Len(suffix) + 1, Len(s)) = suffix

\* filename.split('.').pop(): what follows the last dot, the whole name
\* when it has none
LastSegment(s) ==
    LET dots == {i \in 1..Len(s) : s[i] = "."}
        last == IF dots = {} THEN 0
                ELSE CHOOSE i \in dots : \A j \in dots : j <= i
    IN  SubSeq(s, last + 1, Len(s))

\* getTypeFromName, DocumentProcessor lines 24-42
getTypeFromName(filename) ==
    LET ext == toLowerCase(LastSegment(filename))
    IN  CASE ext = <<"p", "d", "f">> -> MimePdf
          [] ext = <<"d", "o", "c", "x">> -> MimeDocx
          [] ext = <<"d", "o", "c">> -> MimeDoc
          [] ext = <<"t", "x", "t">> -> MimeTxt
          [] ext = <<"m", "d">> -> MimeMd
          [] ext = <<"r", "t", "f">> -> MimeRtf
          [] OTHER -> MimeTxt

\* the test of validateFiles on one file: lines 30-34
isSupported(file) ==
    \/ file.type \in supportedTypes
    \/ endsWith(toLowerCase(file.name), <<".", "t", "x", "t">>)
    \/ endsWith(toLowerCase(file.name), <<".", "m", "d">>)

Accepted(file) == isSupported(file) /\ file.size <= MaxFileSize

Rejected14(file) == ~Accepted(file)

\* validateFiles, lines 25-42
validateFiles(fs) ==
    [valid |-> SelectSeq(fs, Accepted), invalid |-> SelectSeq(fs, Rejected14)]

FileNames ==
    {<<"a", ".", "t", "x", "t">>, <<"a", ".", "T", "X", "T">>,
     <<"a", ".", "m", "d">>, <<"a", ".", "p", "d", "f">>,
     <<"a", ".", "P", "D", "F">>, <<"a", ".", "d", "o", "c", "x">>,
     <<"a", ".", "d", "o", "c">>, <<"a", ".", "r", "t", "f">>,
     <<"a", ".", "p", "n", "g">>, <<"a", ".", "t", "x", "t", ".", "p", "n", "g">>,
     <<"t", "x", "t">>, <<"a">>}

\* File.type: empty when the browser knows no type for the file
FileTypes == supportedTypes \cup {"", "image/png"}

FileSizes == {0, MaxFileSize, MaxFileSize + 1}

Files == [name : FileNames, type : FileTypes, size : FileSizes]

\* three files offered together with others
FewFiles ==
    {[name |-> <<"a", ".", "t", "x", "t">>, type |-> MimeTxt, size |-> 0],
     [name |-> <<"a", ".", "p", "n", "g">>, type |-> "image/png", size |-> 0],
     [name |-> <<"a", ".", "p", "d", "f">>, type |-> MimePdf,
      size |-> MaxFileSize + 1]}

FileLists ==
    {<<f>> : f \in Files} \cup UNION {[1..n -> FewFiles] : n \in 2..MaxFiles}

\* handleFileInput, FileUpload lines 64-80: the error is cleared, the files
\* are validated, the rejection is reported and the valid files uploaded
HandleFileInput ==
    /\ \E fs \in FileLists :
          LET v == validateFiles(fs)
          IN  /\ files' = fs
              /\ valid' = v.valid
              /\ invalid' = v.invalid
              /\ error' = (Len(v.invalid) > 0)
              /\ uploadRequest' = v.valid
    /\ UNCHANGED <<chunkVars, searchVars, indexVars, themeVars, appVars>>

ValidateInit ==
    /\ ChunkIdle /\ SearchIdle
    /\ IndexIdle /\ ValidateIdle /\ ThemeIdle /\ AppIdle

ValidateNext == HandleFileInput

ValidateSpec == ValidateInit /\ [][ValidateNext]_vars

\* a format the README names, by the extension getTypeFromName reads
FormatByExtension(name) ==
    toLowerCase(LastSegment(name)) \in
        {<<"p", "d", "f">>, <<"d", "o", "c", "x">>, <<"d", "o", "c">>,
         <<"t", "x", "t">>, <<"m", "d">>, <<"r", "t", "f">>}

ShouldAccept(file) ==
    /\ file.type \in supportedTypes \/ FormatByExtension(file.name)
    /\ file.size <= MaxFileSize

ShouldReject(file) == ~ShouldAccept(file)

\* C14 (as claimed): a file is accepted exactly when it is of a supported
\* format, recognised by its MIME type or by its extension, and at most
\* 10MB; every other file is rejected and reported.
C14_AcceptedIffSupported ==
    /\ valid = SelectSeq(files, ShouldAccept)
    /\ invalid = SelectSeq(files, ShouldReject)
    /\ error <=> invalid # <<>>

----------------------------------------------------------------------------
(* useTheme: the theme of the App instance of the hook, the theme of one
   child instance (FileUpload, DocumentCard, ...), and the stored key *)

\* largest number of toggles in one behaviour
MaxToggles == 4

\* localStorage.getItem('semantic-search-theme'): "none" is null, "other" a
\* value that is neither 'light' nor 'dark'
StoredValues == {"none", "light", "dark", "other"}

\* a mutant: the stored value is not looked at
initialThemeIgnoresStored(s, dark) == IF dark THEN "dark" ELSE "light"

\* the initializer of useState, lines 6-13, in a browser
initialTheme(s, dark) ==
    IF s = "light" \/ s = "dark" THEN s
    ELSE IF dark THEN "dark" ELSE "light"

\* a mutant: the toggle always ends dark
toggledAlwaysDark(prev) == "dark"

\* the update of toggleTheme, line 26
toggled(prev) == IF prev = "light" THEN "dark" ELSE "light"

\* App mounts: useState initializer, then the effect of lines 15-23
MountApp ==
    /\ theme = "unmounted"
    /\ theme' = initialTheme(stored, prefersDark)
    /\ stored' = theme'
    /\ storedAtStart' = stored
    /\ UNCHANGED <<prefersDark, childTheme, toggles>>
    /\ UNCHANGED <<chunkVars, searchVars, indexVars, validateVars, appVars>>

\* a component below App mounts with its own instance of the hook
MountChild ==
    /\ theme # "unmounted"
    /\ childTheme = "unmounted"
    /\ childTheme' = initialTheme(stored, prefersDark)
    /\ stored' = childTheme'
    /\ UNCHANGED <<prefersDark, theme, storedAtStart, toggles>>
    /\ UNCHANGED <<chunkVars, searchVars, indexVars, validateVars, appVars>>

\* the component is removed again; its state is lost
UnmountChild ==
    /\ childTheme # "unmounted"
    /\ childTheme' = "unmounted"
    /\ UNCHANGED <<stored, prefersDark, theme, storedAtStart, toggles>>
    /\ UNCHANGED <<chunkVars, searchVars, indexVars, validateVars, appVars>>

\* the button of App line 202: toggleTheme, then the effect on [theme]
ToggleTheme ==
    /\ theme # "unmounted"
    /\ toggles < MaxToggles
    /\ theme' = toggled(theme)
    /\ stored' = theme'
    /\ toggles' = toggles + 1
    /\ UNCHANGED <<prefersDark, childTheme, storedAtStart>>
    /\ UNCHANGED <<chunkVars, searchVars, indexVars, validateVars, appVars>>

ThemeInit ==
    /\ stored \in StoredValues
    /\ prefersDark \in BOOLEAN
    /\ theme = "unmounted"
    /\ childTheme = "unmounted"
    /\ storedAtStart = stored
    /\ toggles = 0
    /\ ChunkIdle /\ SearchIdle /\ IndexIdle /\ ValidateIdle /\ AppIdle

ThemeNext == MountApp \/ MountChild \/ UnmountChild \/ ToggleTheme

ThemeSpec == ThemeInit /\ [][ThemeNext]_vars

Opposite(t) == IF t = "dark" THEN "light" ELSE "dark"

SystemPreference == IF prefersDark THEN "dark" ELSE "light"

\* C16: the initial theme is the stored one when that is 'light' or
\* 'dark', else the system preference; after any number of toggles the
\* stored value is the current theme, each toggle flips the theme, and an
\* even number of toggles gives the initial theme back.
C16_ThemePersistedAndFlipped ==
    theme # "unmounted" =>
        LET initial == IF storedAtStart \in {"light", "dark"}
                       THEN storedAtStart ELSE SystemPreference
        IN  /\ theme = IF toggles % 2 = 0 THEN initial ELSE Opposite(initial)
            /\ stored = theme

C16_Witness ==
    /\ storedAtStart = "other" /\ prefersDark
    /\ toggles = 2 /\ theme = "dark" /\ stored = "dark"
    /\ childTheme = "light"

----------------------------------------------------------------------------
(* App: the handlers of the page, each cut at its awaits.  documents and
   selectedDocument hold document ids (0 is null), searchResults the result
   objects of the last search, indexed the objects of the Weaviate class.
   At most one call of each handler is in flight. *)

\* largest number of documents created in one behaviour
MaxDocs == 2

\* the limit handleSearch passes: App line 102
SearchLimit == 10

\* what file.text() gives for the files uploaded: a blank file, a word
FileTexts == {<<" ">>, <<"a">>}

\* the files arrays handed to handleFileUpload, of at most n files
Batches(n) == UNION {[1..m -> FileTexts] : m \in 1..n}

\* the queries typed into the search box
Queries == {<<" ">>, <<" ", "c">>}

\* what the last step did: the handler, whether it went through, and
\* whether it made a request to Weaviate
Event(h, ok, call) == [handler |-> h, ok |-> ok, call |-> call]

\* a mutant: the where filter matches nothing
ObjectsOfNone(d) == {}

\* the objects of the class whose documentId is d: the where filter of
\* deleteDocument, lines 236-240
ObjectsOf(d) == {o \in indexed : o.documentId = d}

\* a mutant: the library is emptied
WithoutDocumentDropsAll(docs, d) == <<>>

\* prev.filter(doc => doc.id !== documentId): App line 115
WithoutDocument(docs, d) ==
    LET Keep(x) == x # d IN SelectSeq(docs, Keep)

\* a mutant: the results are kept
WithoutResultsKeepsAll(results, d) == results

\* prev.filter(result => result.documentId !== documentId): App line 116
WithoutResults(results, d) ==
    LET Keep(r) == r.documentId # d IN SelectSeq(results, Keep)

\* the value the setter of useLocalStorage leaves in documents
setDocuments(prev, value) == value

\* the hit a query returns for one object of the class
Hit(o) ==
    [documentId   |-> o.documentId,
     content      |-> o.content,
     chunkIndex   |-> o.chunkIndex,
     documentName |-> o.documentId,
     hasCertainty |-> TRUE,
     certainty    |-> 9]

\* every object of the class as hits, in the order of the documents
AllHits ==
    LET ds == SortedSeq({o.documentId : o \in indexed})
    IN  [j \in 1..Len(ds) |-> Hit(CHOOSE o \in indexed : o.documentId = ds[j])]

\* a query of the page fails or matches every object
AppReplies ==
    {[kind |-> "error", items |-> <<>>], [kind |-> "list", items |-> AllHits]}

\* the variables no handler of App writes
AppFrame ==
    UNCHANGED <<chunkVars, validateVars, themeVars, docArg, chunksArg, batch>>

\* no search request is answered in this step
NoQuery == UNCHANGED <<limit, vectorReply, keywordReply, outcome>>

\* the effect of App lines 29-41 starts: initialize() creates the client
\* (line 39) and waits for ensureSchema, or weaviate.client throws
ConnectStart ==
    /\ connectTask.pc = "idle"
    /\ \E made \in BOOLEAN :
          IF made
          THEN /\ client' = "client"
               /\ connectTask' = [pc |-> "awaiting"]
               /\ lastEvent' = Event("connect", TRUE, TRUE)
               /\ UNCHANGED isConnected
          ELSE /\ connectTask' = [pc |-> "done", ok |-> FALSE]
               /\ isConnected' = FALSE
               /\ lastEvent' = Event("connect", FALSE, FALSE)
               /\ UNCHANGED client
    /\ UNCHANGED <<documents, searchResults, selectedDocument, isUploading,
                   isSearching, searchQuery, searchType, uploadTask,
                   clearTask, deleteTask, searchTask, nextId, indexed>>
    /\ NoQuery /\ AppFrame

\* ensureSchema settles: lines 33 and 36
ConnectSettle ==
    /\ connectTask.pc = "awaiting"
    /\ \E ok \in BOOLEAN :
          /\ connectTask' = [pc |-> "done", ok |-> ok]
          /\ isConnected' = ok
          /\ lastEvent' = Event("connected", ok, TRUE)
    /\ UNCHANGED <<documents, searchResults, selectedDocument, isUploading,
                   isSearching, searchQuery, searchType, uploadTask,
                   clearTask, deleteTask, searchTask, nextId, indexed, client>>
    /\ NoQuery /\ AppFrame

\* handleFileUpload(files) up to its loop: lines 43-53
HandleFileUpload ==
    /\ uploadTask.pc = "idle"
    /\ nextId <= MaxDocs
    /\ \E fs \in Batches(MaxDocs + 1 - nextId) :
          IF ~isConnected
          THEN /\ lastEvent' = Event("upload", FALSE, FALSE)
               /\ UNCHANGED <<isUploading, uploadTask>>
          ELSE /\ isUploading' = TRUE
               /\ uploadTask' = [pc |-> "looping", files |-> fs, i |-> 0,
                                 newDocuments |-> <<>>]
               /\ lastEvent' = Event("upload", TRUE, FALSE)
    /\ UNCHANGED <<documents, searchResults, selectedDocument, isConnected,
                   isSearching, searchQuery, searchType, connectTask,
                   clearTask, deleteTask, searchTask, nextId, indexed, client>>
    /\ NoQuery /\ AppFrame

\* one round of the loop, lines 55-78: the file is chunked, the document
\* gets its id and is indexed; after the last file the new documents are
\* appended (line 80); a failure ends the upload in the catch of lines 87-92
UploadFile ==
    /\ uploadTask.pc = "looping"
    /\ \E ok \in BOOLEAN :
          LET file    == uploadTask.files[uploadTask.i + 1]
              objects == IndexObjects(nextId, chunkText(file, DefaultChunkSize))
              sent    == client # "null" /\ objects # <<>>
              stored_ == client # "null" /\ (objects = <<>> \/ ok)
              new     == Append(uploadTask.newDocuments, nextId)
              last    == uploadTask.i + 1 = Len(uploadTask.files)
          IN  /\ nextId' = nextId + 1
              /\ lastEvent' = Event("uploadFile", stored_, sent)
              /\ IF stored_
                 THEN /\ indexed' = indexed \cup Range(objects)
                      /\ documents' = IF last
                                      THEN setDocuments(documents, documents \o new)
                                      ELSE documents
                      /\ uploadTask' = IF last THEN [pc |-> "finishing"]
                                       ELSE [uploadTask EXCEPT !.i = @ + 1,
                                                               !.newDocuments = new]
                      /\ UNCHANGED isUploading
                 ELSE /\ isUploading' = FALSE
                      /\ uploadTask' = NoTask
                      /\ UNCHANGED <<indexed, documents>>
    /\ UNCHANGED <<searchResults, selectedDocument, isConnected, isSearching,
                   searchQuery, searchType, connectTask, clearTask, deleteTask,
                   searchTask, client>>
    /\ NoQuery /\ AppFrame

\* the timer of lines 83-86
UploadTimer ==
    /\ uploadTask.pc = "finishing"
    /\ isUploading' = FALSE
    /\ uploadTask' = NoTask
    /\ lastEvent' = Event("uploadDone", TRUE, FALSE)
    /\ UNCHANGED <<documents, searchResults, selectedDocument, isConnected,
                   isSearching, searchQuery, searchType, connectTask,
                   clearTask, deleteTask, searchTask, nextId, indexed, client>>
    /\ NoQuery /\ AppFrame


\* the mode buttons of SearchInterface, lines 175 and 185
SetSearchType ==
    /\ \E t \in {"semantic", "keyword"} :
          /\ t # searchType
          /\ searchType' = t
    /\ lastEvent' = Event("mode", TRUE, FALSE)
    /\ UNCHANGED <<documents, searchResults, selectedDocument, isConnected,
                   isUploading, isSearching, searchQuery, connectTask,
                   uploadTask, clearTask, deleteTask, searchTask, nextId,
                   indexed, client>>
    /\ NoQuery /\ AppFrame

\* a mutant: the guard of line 96 is left out
handleSearchUnguarded(q) ==
    /\ isSearching' = TRUE
    /\ searchQuery' = q
    /\ searchTask' = [pc |-> "awaiting", mode |-> searchType]
    /\ lastEvent' = Event("search", TRUE, FALSE)

\* handleSearch(query) up to its await: App lines 95-102
handleSearch(q) ==
    IF Len(trim(q)) = 0 \/ ~isConnected
    THEN /\ lastEvent' = Event("search", FALSE, FALSE)
         /\ UNCHANGED <<isSearching, searchQuery, searchTask>>
    ELSE /\ isSearching' = TRUE
         /\ searchQuery' = q
         /\ searchTask' = [pc |-> "awaiting", mode |-> searchType]
         /\ lastEvent' = Event("search", TRUE, FALSE)

\* handleSearch called with any query
HandleSearch ==
    /\ searchTask.pc = "idle"
    /\ \E q \in Queries : handleSearch(q)
    /\ UNCHANGED <<documents, searchResults, selectedDocument, isConnected,
                   isUploading, searchType, connectTask, uploadTask,
                   clearTask, deleteTask, nextId, indexed, client>>
    /\ NoQuery /\ AppFrame

\* handleSubmit of SearchInterface, lines 149-153, with the props App
\* passes (lines 326-329)
HandleSubmit ==
    /\ searchTask.pc = "idle"
    /\ \E q \in Queries :
          LET disabled == ~isConnected \/ Len(documents) = 0
          IN  IF Len(trim(q)) = 0 \/ disabled \/ isSearching
              THEN /\ lastEvent' = Event("submit", FALSE, FALSE)
                   /\ UNCHANGED <<isSearching, searchQuery, searchTask>>
              ELSE handleSearch(trim(q))
    /\ UNCHANGED <<documents, searchResults, selectedDocument, isConnected,
                   isUploading, searchType, connectTask, uploadTask,
                   clearTask, deleteTask, nextId, indexed, client>>
    /\ NoQuery /\ AppFrame

\* searchDocuments settles: App lines 102-109
SearchSettle ==
    /\ searchTask.pc = "awaiting"
    /\ \E v \in (IF client = "null" THEN {NotAsked} ELSE AppReplies) :
       \E k \in (IF v.kind = "error" THEN AppReplies ELSE {NotAsked}) :
          LET r == searchDocuments(client, v, k)
          IN  /\ limit' = SearchLimit
              /\ vectorReply' = v
              /\ keywordReply' = k
              /\ outcome' = [op |-> "search", status |-> r.status,
                             value |-> r.value]
              /\ searchResults' = IF r.status = "resolved" THEN r.value
                                  ELSE searchResults
              /\ lastEvent' = Event("searched", r.status = "resolved",
                                    client # "null")
    /\ isSearching' = FALSE
    /\ searchTask' = NoTask
    /\ UNCHANGED <<documents, selectedDocument, isConnected, isUploading,
                   searchQuery, searchType, connectTask, uploadTask,
                   clearTask, deleteTask, nextId, indexed, client>>
    /\ AppFrame

\* a card of the library is clicked: App line 304
SelectDocument ==
    /\ \E d \in Range(documents) :
          /\ d # selectedDocument
          /\ selectedDocument' = d
    /\ lastEvent' = Event("select", TRUE, FALSE)
    /\ UNCHANGED <<documents, searchResults, isConnected, isUploading,
                   isSearching, searchQuery, searchType, connectTask,
                   uploadTask, clearTask, deleteTask, searchTask, nextId,
                   indexed, client>>
    /\ NoQuery /\ AppFrame

\* handleDeleteDocument(d) up to its await: App lines 112-114, and line 230
\* of deleteDocument
HandleDeleteDocument ==
    /\ deleteTask.pc = "idle"
    /\ \E d \in Range(documents) :
          IF client = "null"
          THEN /\ lastEvent' = Event("deleted", FALSE, FALSE)
               /\ UNCHANGED deleteTask
          ELSE /\ deleteTask' = [pc |-> "awaiting", id |-> d]
               /\ lastEvent' = Event("delete", TRUE, TRUE)
    /\ UNCHANGED <<documents, searchResults, selectedDocument, isConnected,
                   isUploading, isSearching, searchQuery, searchType,
                   connectTask, uploadTask, clearTask, searchTask, nextId,
                   indexed, client>>
    /\ NoQuery /\ AppFrame

\* the batch delete settles: App lines 115-120
DeleteSettle ==
    /\ deleteTask.pc = "awaiting"
    /\ \E ok \in BOOLEAN :
          LET d == deleteTask.id
          IN  /\ lastEvent' = Event("deleted", ok, TRUE)
              /\ IF ok
                 THEN /\ indexed' = indexed \ ObjectsOf(d)
                      /\ documents' =
                            setDocuments(documents, WithoutDocument(documents, d))
                      /\ searchResults' = WithoutResults(searchResults, d)
                 ELSE UNCHANGED <<indexed, documents, searchResults>>
    /\ deleteTask' = NoTask
    /\ UNCHANGED <<selectedDocument, isConnected, isUploading, isSearching,
                   searchQuery, searchType, connectTask, uploadTask,
                   clearTask, searchTask, nextId, client>>
    /\ NoQuery /\ AppFrame


\* handleClearAll up to its first await: App lines 123-130.  The loop runs
\* over the documents of the render in which the button was clicked.
HandleClearAll ==
    /\ clearTask.pc = "idle"
    /\ Len(documents) > 0
    /\ \E confirmed \in BOOLEAN :
          IF ~confirmed
          THEN /\ lastEvent' = Event("clear", FALSE, FALSE)
               /\ UNCHANGED clearTask
          ELSE IF client = "null"
          THEN /\ lastEvent' = Event("cleared", FALSE, FALSE)
               /\ UNCHANGED clearTask
          ELSE /\ clearTask' = [pc |-> "deleting", docs |-> documents, i |-> 1]
               /\ lastEvent' = Event("clear", TRUE, TRUE)
    /\ UNCHANGED <<documents, searchResults, selectedDocument, isConnected,
                   isUploading, isSearching, searchQuery, searchType,
                   connectTask, uploadTask, deleteTask, searchTask, nextId,
                   indexed, client>>
    /\ NoQuery /\ AppFrame

\* one deletion of the loop settles, lines 129-131; after the last one the
\* state is emptied (lines 132-134); a failure ends in the catch (135-138)
ClearStep ==
    /\ clearTask.pc = "deleting"
    /\ \E ok \in BOOLEAN :
          LET d    == clearTask.docs[clearTask.i]
              last == clearTask.i = Len(clearTask.docs)
          IN  IF ~ok
              THEN /\ clearTask' = NoTask
                   /\ lastEvent' = Event("cleared", FALSE, TRUE)
                   /\ UNCHANGED <<indexed, documents, searchResults,
                                  selectedDocument>>
              ELSE /\ indexed' = indexed \ ObjectsOf(d)
                   /\ IF last
                      THEN /\ documents' = setDocuments(documents, <<>>)
                           /\ searchResults' = <<>>
                           /\ selectedDocument' = 0
                           /\ clearTask' = NoTask
                           /\ lastEvent' = Event("cleared", TRUE, TRUE)
                      ELSE /\ clearTask' = [clearTask EXCEPT !.i = @ + 1]
                           /\ lastEvent' = Event("clearing", TRUE, TRUE)
                           /\ UNCHANGED <<documents, searchResults,
                                          selectedDocument>>
    /\ UNCHANGED <<isConnected, isUploading, isSearching, searchQuery,
                   searchType, connectTask, uploadTask, deleteTask,
                   searchTask, nextId, client>>
    /\ NoQuery /\ AppFrame

\* the page loads: the library is empty, or holds a document kept from an
\* earlier visit, whose chunk may or may not still be in the class
AppInit ==
    /\ ChunkIdle /\ SearchIdle /\ ValidateIdle /\ ThemeIdle
    /\ docArg = 0 /\ chunksArg = <<>> /\ batch = <<>>
    /\ \E kept \in BOOLEAN :
          /\ documents = IF kept THEN <<1>> ELSE <<>>
          /\ nextId = IF kept THEN 2 ELSE 1
          /\ indexed \in IF kept
                         THEN {{}, Range(IndexObjects(1, << <<"a">> >>))}
                         ELSE {{}}
    /\ searchResults = <<>>
    /\ selectedDocument = 0
    /\ isConnected = FALSE
    /\ isUploading = FALSE
    /\ isSearching = FALSE
    /\ searchQuery = <<>>
    /\ searchType = "semantic"
    /\ connectTask = NoTask
    /\ uploadTask = NoTask
    /\ clearTask = NoTask
    /\ deleteTask = NoTask
    /\ searchTask = NoTask
    /\ lastEvent = Event("none", TRUE, FALSE)

\* the page with the search mode left as it is
AppNext ==
    \/ ConnectStart \/ ConnectSettle
    \/ HandleFileUpload \/ UploadFile \/ UploadTimer
    \/ HandleSearch \/ SearchSettle
    \/ SelectDocument
    \/ HandleDeleteDocument \/ DeleteSettle
    \/ HandleClearAll \/ ClearStep

AppSpec == AppInit /\ [][AppNext]_vars

\* the search box: the connection, the mode buttons, the form, the search
SearchBoxNext ==
    \/ ConnectStart \/ ConnectSettle
    \/ SetSearchType \/ HandleSubmit \/ SearchSettle

SearchBoxSpec == AppInit /\ [][SearchBoxNext]_vars

----------------------------------------------------------------------------
(* Claims about the page *)

\* a search of the page settles in this step
SearchSettles == searchTask.pc = "awaiting" /\ searchTask'.pc = "idle"

\* C15 (as claimed): the mode chosen in SearchInterface determines the
\* search that is executed: in keyword mode the keyword query is made and
\* the vector query is not, in semantic mode the vector query is made.
C15_ModeDeterminesSearch ==
    [][SearchSettles =>
          IF searchTask.mode = "keyword"
          THEN vectorReply' = NotAsked /\ keywordReply' # NotAsked
          ELSE vectorReply' # NotAsked]_vars

\* C17: when the index deletion of handleDeleteDocument(d) succeeds, the
\* handler removes d, and nothing else, from the library and the results of
\* d, and no others, from searchResults; when it fails both are unchanged.
C17_DeleteRemovesExactlyD ==
    [][/\ deleteTask.pc = "awaiting" /\ deleteTask'.pc = "idle" =>
             LET d == deleteTask.id
                 OtherDoc(x) == x # d
                 OtherResult(r) == r.documentId # d
             IN  IF lastEvent'.ok
                 THEN /\ documents' = SelectSeq(documents, OtherDoc)
                      /\ searchResults' = SelectSeq(searchResults, OtherResult)
                      /\ d \notin Range(documents')
                 ELSE UNCHANGED <<documents, searchResults>>
       /\ lastEvent'.handler = "deleted" /\ ~lastEvent'.ok =>
             UNCHANGED <<documents, searchResults>>]_vars

\* one of two documents was deleted after a search that had found both:
\* the other document and its result are left
C17_Witness ==
    /\ lastEvent = Event("deleted", TRUE, TRUE)
    /\ Len(vectorReply.items) = 2
    /\ Len(documents) = 1
    /\ Len(searchResults) = 1
    /\ searchResults[1].documentId = documents[1]

\* a confirmed clear-all ends in this step
ClearEnds ==
    \/ clearTask.pc = "deleting" /\ clearTask'.pc = "idle"
    \/ lastEvent' = Event("cleared", FALSE, FALSE) /\ lastEvent' # lastEvent

\* clear-all was declined in this step
ClearDeclined == lastEvent' = Event("clear", FALSE, FALSE)

NothingElseChanges ==
    UNCHANGED <<documents, searchResults, selectedDocument, isConnected,
                isUploading, isSearching, searchQuery, searchType,
                connectTask, uploadTask, clearTask, deleteTask, searchTask,
                nextId, chunkVars, searchVars, indexVars, validateVars,
                themeVars>>

\* C18 (as claimed): after a confirmed clear-all the library and
\* searchResults are empty, no document is selected and no chunk of a
\* document that was listed remains in the index; a declined clear-all
\* changes nothing and calls no service.
C18_ClearAllEmpties ==
    [][/\ ClearEnds =>
             /\ documents' = <<>>
             /\ searchResults' = <<>>
             /\ selectedDocument' = 0
             /\ \A o \in indexed' : o.documentId \notin Range(documents)
       /\ ClearDeclined => NothingElseChanges]_vars

\* C18: after a confirmed clear-all in which every deletion succeeded the
\* library and searchResults are empty, no document is selected and no
\* chunk of a document the loop ran over remains in the index; when a
\* deletion fails the library, searchResults and the selection are as
\* before; a declined clear-all changes nothing and calls no service.
C18_ClearAllEmptiesOnSuccess ==
    [][/\ ClearEnds /\ lastEvent'.ok =>
             /\ documents' = <<>>
             /\ searchResults' = <<>>
             /\ selectedDocument' = 0
             /\ \A o \in indexed' : o.documentId \notin Range(clearTask.docs)
       /\ ClearEnds /\ ~lastEvent'.ok =>
             UNCHANGED <<documents, searchResults, selectedDocument>>
       /\ ClearDeclined => NothingElseChanges]_vars

\* two documents were cleared after a search had found them
C18_Witness ==
    /\ lastEvent = Event("cleared", TRUE, TRUE)
    /\ Len(vectorReply.items) = 2
    /\ documents = <<>>
    /\ searchResults = <<>>
    /\ selectedDocument = 0
    /\ indexed = {}

\* C20: while isConnected is false, handleFileUpload and handleSearch
\* start no request to the service and leave documents, searchResults,
\* isUploading, isSearching and searchQuery as they are; and isConnected
\* is true only after initialize() has resolved.
C20_DisconnectedDoesNothing ==
    /\ [](isConnected => connectTask = [pc |-> "done", ok |-> TRUE])
    /\ [][~isConnected /\ lastEvent'.handler \in {"upload", "search"} =>
             /\ ~lastEvent'.ok /\ ~lastEvent'.call
             /\ UNCHANGED <<documents, searchResults, isUploading,
                            isSearching, searchQuery, uploadTask, searchTask,
                            indexed, limit, vectorReply, keywordReply>>]_vars

\* an upload was refused while the connection had failed and the library
\* held a document
C20_Witness ==
    /\ lastEvent = Event("upload", FALSE, FALSE)
    /\ connectTask = [pc |-> "done", ok |-> FALSE]
    /\ ~isConnected
    /\ documents = <<1>>
    /\ client = "client"

----------------------------------------------------------------------------
(* The merge pass at chunk sizes of 99 and more *)

\* C21 (as claimed): for chunkSize 500, and any chunkSize >= 99, the
\* returned sequence equals the provisional chunk sequence of the builder.
C21_ReturnsProvisionalChunks ==
    pc = "done" /\ chunkSize >= MinChunkLength - 1 => result = chunks

\* C21: for chunkSize 500, and any chunkSize >= 99, two consecutive
\* provisional chunks total more than chunkSize characters, so the merge
\* pass merges nothing: when the builder made at least one chunk the
\* returned sequence is the provisional one, and when it made none (the
\* text has no sentence) the text cut to chunkSize is returned alone.
C21_MergePassMergesNothing ==
    pc = "done" /\ chunkSize >= MinChunkLength - 1 =>
        /\ \A i \in 1..(Len(chunks) - 1) :
              Len(chunks[i]) + Len(chunks[i + 1]) > chunkSize
        /\ chunks # <<>> => result = chunks
        /\ chunks = <<>> => result = <<substring0(text, chunkSize)>>

\* chunkSize 99 and two provisional chunks of 100 characters together,
\* returned unmerged
C21_Witness ==
    /\ pc = "done"
    /\ chunkSize = MinChunkLength - 1
    /\ Len(chunks) >= 2
    /\ result = chunks
    /\ \E i \in 1..(Len(chunks) - 1) :
          Len(chunks[i]) + Len(chunks[i + 1]) = MinChunkLength

----------------------------------------------------------------------------
(* The index and the library *)

\* no upload, deletion or clear-all is under way
Quiescent ==
    /\ uploadTask.pc \in {"idle", "finishing"}
    /\ deleteTask.pc = "idle"
    /\ clearTask.pc = "idle"

\* the documents whose chunks the clear-all ending in this step has deleted
ClearedSoFar ==
    {clearTask.docs[j] : j \in 1..(IF lastEvent'.ok THEN clearTask.i
                                   ELSE clearTask.i - 1)}

\* C22 (as claimed): after any sequence of upload batches, deletes and
\* clear-alls, also ones in which a service call fails part-way, a document
\* has chunks in the index only if the library lists it, and the chunks of a
\* listed document have not been deleted from the index.
C22_IndexAgreesWithLibrary ==
    /\ [](Quiescent => \A o \in indexed : o.documentId \in Range(documents))
    /\ [][/\ clearTask.pc = "deleting" /\ clearTask'.pc = "idle" =>
                \A d \in ClearedSoFar : d \notin Range(documents')
          /\ deleteTask.pc = "awaiting" /\ deleteTask'.pc = "idle"
                /\ lastEvent'.ok => deleteTask.id \notin Range(documents')]_vars

====
